---- MODULE Spec2Model ----
(***************************************************************************)
(* Energy monitor app: the mock ESP8266 hook (useESP8266), the HomeScreen  *)
(* that consumes it (warning modal, push notifications, app state), the    *)
(* threshold classifier and the tariff calculators.                        *)
(*                                                                         *)
(* React model: every action is one handler or timer callback together     *)
(* with the render it causes and the effects of that render.  JavaScript   *)
(* is single threaded, so a callback and the promise continuations it      *)
(* resolves run without interleaving.                                      *)
(***************************************************************************)
EXTENDS Integers, Sequences, FiniteSets, TLC

VARIABLES
    connected,              \* espData.connected
    components,             \* espData.components: id -> isOn
    powerUsage,             \* espData.powerUsage
    threshold,              \* espData.threshold (null is NoThreshold)
    loading,                \* HomeScreen loading
    error,                  \* HomeScreen error ("null" or a message)
    showWarning,            \* HomeScreen showWarning (modal visible)
    appState,               \* HomeScreen appState
    notificationPermission, \* HomeScreen notificationPermission
    registering,            \* a registerForPushNotificationsAsync call is in flight
    timers,                 \* pending setTimeout callbacks, in scheduling order
    dispatched,             \* titles handed to scheduleNotificationAsync by the last update
    prevThreshold,          \* threshold of the previous render (the effects' remembered dependency)
    lastOp,                 \* the handler or callback that ran last
    again,                  \* dismissWarning ran last and also immediately before
    calc,                   \* a pure function's arguments and, once applied, its result
    tariffScreen,           \* TariffScreen's state and what it renders
    monitoring,             \* the Firebase monitoring record and the writes made to it
    polling                 \* the polling HomeScreen: its state, connect calls in flight, intervals

hookVars == <<connected, components, powerUsage, threshold>>
screenVars == <<loading, error, showWarning, appState, notificationPermission, registering>>
traceVars == <<dispatched, prevThreshold, lastOp, again>>
homeVars == <<hookVars, screenVars, timers, traceVars>>
otherVars == <<calc, tariffScreen, monitoring, polling>>
vars == <<homeVars, otherVars>>

\* The value of a part of the model that a specification does not use.
Unused == [use |-> "none"]

----------------------------------------------------------------------------
(* Bounds of the model *)

\* pending setTimeout callbacks kept at once
MaxPending == 2

----------------------------------------------------------------------------
(* mockESPData.ts *)

ComponentIds == {1, 2, 3}

THRESHOLD_1 == 100
THRESHOLD_2 == 150

\* threshold: null
NoThreshold == 0

\* A light bulb of 35 W.
componentPowerHeavyBulb(id) ==
    CASE id = 1 -> 35
      [] id = 2 -> 45
      [] id = 3 -> 120

\* componentPower
componentPower(id) ==
    CASE id = 1 -> 25
      [] id = 2 -> 45
      [] id = 3 -> 120

\* Math.floor(Math.random() * 10) - 5
Fluctuations == (0 - 5) .. 4

initialComponents == [id \in ComponentIds |-> FALSE]

Max(a, b) == IF a > b THEN a ELSE b

RECURSIVE SumPower(_, _)
SumPower(comps, ids) ==
    IF ids = {} THEN 0
    ELSE LET id == CHOOSE x \in ids : TRUE
         IN  (IF comps[id] THEN componentPower(id) ELSE 0)
             + SumPower(comps, ids \ {id})

\* A calculatePowerUsage without Math.max(0, ...).
calculatePowerUsageUnclamped(comps, fluctuation) ==
    SumPower(comps, ComponentIds) + fluctuation

\* calculatePowerUsage, with the random fluctuation as an argument
calculatePowerUsage(comps, fluctuation) ==
    Max(0, SumPower(comps, ComponentIds) + fluctuation)

\* A getThreshold whose comparisons are not strict.
getThresholdInclusive(p) ==
    IF p >= THRESHOLD_2 THEN 2
    ELSE IF p >= THRESHOLD_1 THEN 1
    ELSE NoThreshold

\* A getThreshold with a level above critical.
getThresholdFourLevels(p) ==
    IF p > THRESHOLD_2 + 30 THEN 3
    ELSE IF p > THRESHOLD_2 THEN 2
    ELSE IF p > THRESHOLD_1 THEN 1
    ELSE NoThreshold

\* A getThreshold without the warning level.
getThresholdCriticalOnly(p) ==
    IF p > THRESHOLD_2 THEN 2 ELSE NoThreshold

\* getThreshold
getThreshold(p) ==
    IF p > THRESHOLD_2 THEN 2
    ELSE IF p > THRESHOLD_1 THEN 1
    ELSE NoThreshold

----------------------------------------------------------------------------
(* Timers *)

\* setTimeout delays of connect, toggleComponent and turnOffAll
Delay(kind) ==
    CASE kind = "connect" -> 1500
      [] kind = "toggle" -> 300
      [] kind = "turnOffAll" -> 500

\* A callback scheduled now.  Where taps are followed (calc.use = "taps"),
\* seen is, for a toggle, the isOn of the component on the screen the tap
\* was made on.
Timer(kind, id) ==
    [kind |-> kind, id |-> id,
     seen |-> IF calc.use = "taps" /\ kind = "toggle" THEN components[id]
              ELSE FALSE]

\* A pending callback can run once no callback scheduled before it with a
\* delay at most its own is still pending.
CanFire(i) ==
    /\ i \in 1 .. Len(timers)
    /\ \A j \in 1 .. (i - 1) : Delay(timers[j].kind) > Delay(timers[i].kind)

Remove(s, i) == SubSeq(s, 1, i - 1) \o SubSeq(s, i + 1, Len(s))

----------------------------------------------------------------------------
(* HomeScreen (useESP8266 with notifications) *)

AppStates == {"active", "background", "inactive"}

\* A notification effect that names the levels the wrong way round.
NotificationEffectSwapped(th, app, perm) ==
    IF th # NoThreshold /\ app # "active" /\ perm
    THEN <<IF th = 1 THEN "Smart Power Monitor - Critical"
           ELSE "Smart Power Monitor - Warning">>
    ELSE <<>>

\* A modal effect that reacts to the critical level only.
ModalEffectCriticalOnly(th, app) == th = 2 /\ app = "active"

\* A turnOffAll that leaves the threshold as it was.
turnOffAllKeepsThreshold(prev) == prev

\* A notification effect that does not ask for the permission.
NotificationEffectWithoutPermission(th, app, perm) ==
    IF th # NoThreshold /\ app # "active"
    THEN <<IF th = 1 THEN "Smart Power Monitor - Warning"
           ELSE "Smart Power Monitor - Critical">>
    ELSE <<>>

\* A modal effect that does not look at the app state.
ModalEffectAnyAppState(th, app) == th # NoThreshold

\* schedulePushNotification: content.title
NotificationTitle(title) ==
    CASE title = "Warning" -> "Smart Power Monitor - Warning"
      [] title = "Critical" -> "Smart Power Monitor - Critical"

\* The notification effect's body: the titles it schedules.
NotificationEffect(th, app, perm) ==
    IF th # NoThreshold
       /\ (app # "active" \/ app = "background" \/ app = "inactive")
    THEN IF perm
         THEN <<NotificationTitle(IF th = 1 THEN "Warning" ELSE "Critical")>>
         ELSE <<>>
    ELSE <<>>

\* The modal effect's body: whether it calls setShowWarning(true).
ModalEffect(th, app) == th # NoThreshold /\ app = "active"

\* A modal effect that also depends on powerUsage.
ModalDepsWithPower(th, app, power) == <<th, app, power>>

\* The modal effect's dependency list, [threshold, appState]: powerUsage is
\* not in it.
ModalDeps(th, app, power) == <<th, app>>

\* The render after an update: both effects run when one of their
\* dependencies differs from the previous render.  sw is showWarning as the
\* handler left it.
Effects(sw) ==
    /\ dispatched' =
         IF <<threshold', appState', powerUsage', notificationPermission'>>
            # <<threshold, appState, powerUsage, notificationPermission>>
         THEN NotificationEffect(threshold', appState', notificationPermission')
         ELSE <<>>
    /\ showWarning' =
         IF ModalDeps(threshold', appState', powerUsage')
              # ModalDeps(threshold, appState, powerUsage)
            /\ ModalEffect(threshold', appState')
         THEN TRUE
         ELSE sw
    /\ prevThreshold' = threshold

Op(name) ==
    /\ lastOp' = name
    /\ again' = (name = "dismissWarning" /\ lastOp = "dismissWarning")

\* What every update of the HomeScreen does after its handler.
Update(name, sw) ==
    /\ Effects(sw)
    /\ Op(name)
    /\ UNCHANGED otherVars

HomeInit ==
    /\ connected = FALSE
    /\ components = initialComponents
    /\ powerUsage = 0
    /\ threshold = NoThreshold
    /\ loading = FALSE
    /\ error = "null"
    /\ showWarning = FALSE
    /\ appState = "active"
    /\ notificationPermission = FALSE
    /\ registering = TRUE
    /\ timers = <<>>
    /\ dispatched = <<>>
    /\ prevThreshold = NoThreshold
    /\ lastOp = "mount"
    /\ again = FALSE

Init ==
    /\ HomeInit
    /\ polling = Unused
    /\ calc = Unused
    /\ tariffScreen = Unused
    /\ monitoring = Unused

\* handleConnect up to its await: the Connect button, shown while not
\* connected and disabled while loading.  The warning modal covers the
\* screen while it is visible.
HandleConnect ==
    /\ appState = "active"
    /\ ~showWarning
    /\ ~connected
    /\ ~loading
    /\ Len(timers) < MaxPending
    /\ loading' = TRUE
    /\ error' = "null"
    /\ timers' = Append(timers, Timer("connect", 0))
    /\ UNCHANGED <<hookVars, appState, notificationPermission, registering>>
    /\ Update("handleConnect", showWarning)

\* connect's timer callback, then handleConnect's finally block.
ConnectFire(i) ==
    /\ CanFire(i)
    /\ timers[i].kind = "connect"
    /\ timers' = Remove(timers, i)
    /\ connected' = TRUE
    /\ loading' = FALSE
    /\ UNCHANGED <<components, powerUsage, threshold, error, appState,
                   notificationPermission, registering>>
    /\ Update("connect", showWarning)

\* A disconnect that cancels the pending callbacks.
disconnectClearsTimers(pending) == <<>>

\* The pending setTimeout callbacks after disconnect: it keeps no timer id
\* and calls no clearTimeout.
disconnectTimers(pending) == pending

\* handleDisconnect -> disconnect: the Disconnect button, shown while connected.
HandleDisconnect ==
    /\ appState = "active"
    /\ ~showWarning
    /\ connected
    /\ ~loading
    /\ connected' = FALSE
    /\ components' = initialComponents
    /\ powerUsage' = 0
    /\ threshold' = NoThreshold
    /\ timers' = disconnectTimers(timers)
    /\ UNCHANGED <<loading, error, appState, notificationPermission,
                   registering>>
    /\ Update("disconnect", showWarning)

\* handleToggleComponent up to its await: returns early when not connected.
\* While the warning modal is visible the button pressed is one of the
\* modal, which lists the components that are on.
HandleToggleComponent(id) ==
    /\ appState = "active"
    /\ connected
    /\ showWarning => components[id]
    /\ Len(timers) < MaxPending
    /\ timers' = Append(timers, Timer("toggle", id))
    /\ UNCHANGED <<hookVars, loading, error, appState, notificationPermission,
                   registering>>
    /\ Update("handleToggleComponent", showWarning)

\* A toggleComponent that switches the component on whatever it was.
toggleComponentTurnsOn(comps, id) ==
    [c \in ComponentIds |-> IF c = id THEN TRUE ELSE comps[c]]

\* The state toggleComponent's updater returns for component id.
toggleComponent(comps, id) ==
    [c \in ComponentIds |-> IF c = id THEN ~comps[c] ELSE comps[c]]

\* toggleComponent's timer callback.
ToggleFire(i) ==
    /\ CanFire(i)
    /\ timers[i].kind = "toggle"
    /\ timers' = Remove(timers, i)
    /\ \E f \in Fluctuations :
         /\ components' = toggleComponent(components, timers[i].id)
         /\ powerUsage' = calculatePowerUsage(components', f)
         /\ threshold' = getThreshold(powerUsage')
    /\ UNCHANGED <<connected, loading, error, appState, notificationPermission,
                   registering>>
    /\ Update("toggleComponent", showWarning)

\* A dismissWarning that leaves the modal as it is.
dismissWarningKeeps(sw) == sw

\* A dismissWarning that flips the modal.
dismissWarningFlips(sw) == ~sw

\* showWarning after dismissWarning: setShowWarning(false).
dismissWarning(sw) == FALSE

\* handleTurnOffAll up to its await: the Turn Off All button of the modal,
\* on screen while showWarning.
HandleTurnOffAll ==
    /\ appState = "active"
    /\ showWarning
    /\ Len(timers) < MaxPending
    /\ timers' = Append(timers, Timer("turnOffAll", 0))
    /\ UNCHANGED <<hookVars, loading, error, appState, notificationPermission,
                   registering>>
    /\ Update("handleTurnOffAll", showWarning)

\* A turnOffAll that lowers the threshold by one level.
turnOffAllOneLevelDown(prev) == IF prev = 2 THEN 1 ELSE NoThreshold

\* The threshold turnOffAll's updater stores.
turnOffAllThreshold(prev) == NoThreshold

\* turnOffAll's timer callback, then handleTurnOffAll's dismissWarning.
TurnOffAllFire(i) ==
    /\ CanFire(i)
    /\ timers[i].kind = "turnOffAll"
    /\ timers' = Remove(timers, i)
    /\ components' = [c \in ComponentIds |-> FALSE]
    /\ powerUsage' = 0
    /\ threshold' = turnOffAllThreshold(threshold)
    /\ UNCHANGED <<connected, loading, error, appState, notificationPermission,
                   registering>>
    /\ Update("turnOffAll", dismissWarning(showWarning))

\* The modal's Dismiss button.  The handler has no guard of its own, and a
\* second press can land before the modal has left the screen.
DismissWarning ==
    /\ appState = "active"
    /\ UNCHANGED <<hookVars, loading, error, appState, notificationPermission,
                   registering, timers>>
    /\ Update("dismissWarning", dismissWarning(showWarning))

\* The hook's 5 second interval, running while connected.
PeriodicUpdate ==
    /\ connected
    /\ \E f \in Fluctuations :
         /\ powerUsage' = calculatePowerUsage(components, f)
         /\ threshold' = getThreshold(powerUsage')
    /\ UNCHANGED <<connected, components, loading, error, appState,
                   notificationPermission, registering, timers>>
    /\ Update("periodicUpdate", showWarning)

\* AppState 'change' listener.
AppStateChange(next) ==
    /\ next # appState
    /\ appState' = next
    /\ UNCHANGED <<hookVars, loading, error, notificationPermission,
                   registering, timers>>
    /\ Update("appStateChange", showWarning)

\* registerForPushNotificationsAsync resolves: setNotificationPermission(granted).
RegisterResolve(granted) ==
    /\ registering
    /\ registering' = FALSE
    /\ notificationPermission' = granted
    /\ UNCHANGED <<hookVars, loading, error, appState, timers>>
    /\ Update("setNotificationPermission", showWarning)

\* The Enable button of the notification banner, shown while permission is
\* not granted.
EnableNotifications ==
    /\ appState = "active"
    /\ ~showWarning
    /\ ~notificationPermission
    /\ ~registering
    /\ registering' = TRUE
    /\ UNCHANGED <<hookVars, loading, error, appState, notificationPermission,
                   timers>>
    /\ Update("enableNotifications", showWarning)

Next ==
    \/ HandleConnect
    \/ \E i \in 1 .. MaxPending : ConnectFire(i)
    \/ HandleDisconnect
    \/ \E id \in ComponentIds : HandleToggleComponent(id)
    \/ \E i \in 1 .. MaxPending : ToggleFire(i)
    \/ HandleTurnOffAll
    \/ \E i \in 1 .. MaxPending : TurnOffAllFire(i)
    \/ DismissWarning
    \/ PeriodicUpdate
    \/ \E next \in AppStates : AppStateChange(next)
    \/ \E granted \in BOOLEAN : RegisterResolve(granted)
    \/ EnableNotifications

Spec == Init /\ [][Next]_vars

----------------------------------------------------------------------------
(* Notification policy and warning modal *)

WarningTitle == "Smart Power Monitor - Warning"

AllOff == \A id \in ComponentIds : ~components[id]

\* C2: when the threshold level goes from none to 1 while the app is not in
\* the foreground and notification permission is granted, the update
\* dispatches exactly one push notification, titled with the product name
\* followed by "Warning".
C2_OneWarningNotification ==
    (prevThreshold = NoThreshold /\ threshold = 1
       /\ appState # "active" /\ notificationPermission)
    => dispatched = <<WarningTitle>>

C2_Witness ==
    /\ lastOp = "toggleComponent"
    /\ prevThreshold = NoThreshold /\ threshold = 1
    /\ appState = "background" /\ notificationPermission
    /\ dispatched = <<WarningTitle>>

\* C3: when the threshold level goes from none to 1 while the app is in the
\* foreground, the update dispatches no push notification and the warning
\* modal is visible.
C3_ForegroundShowsModal ==
    (prevThreshold = NoThreshold /\ threshold = 1 /\ appState = "active")
    => (dispatched = <<>> /\ showWarning)

C3_Witness ==
    /\ lastOp = "toggleComponent"
    /\ prevThreshold = NoThreshold /\ threshold = 1
    /\ appState = "active" /\ notificationPermission
    /\ dispatched = <<>> /\ showWarning

\* C4: a push notification is dispatched only by an update on which the
\* threshold level increased relative to the previous one; a periodic
\* update that leaves the threshold level as it was, changing only the power
\* reading, dispatches none.
C4_NotifyOnlyOnIncrease ==
    (lastOp = "periodicUpdate" /\ dispatched # <<>>)
    => threshold > prevThreshold

\* C6: after a turn-off-all completes, all three components are off, the
\* threshold level is none and the warning modal is hidden.
C6_TurnOffAllResets ==
    lastOp = "turnOffAll"
    => (AllOff /\ threshold = NoThreshold /\ ~showWarning)

C6_Witness ==
    /\ lastOp = "turnOffAll"
    /\ prevThreshold = 2
    /\ AllOff /\ threshold = NoThreshold /\ ~showWarning
    /\ appState = "active"

UserOps == {"toggleComponent", "turnOffAll", "disconnect"}

C13_ThresholdLevelRange ==
    /\ threshold \in {NoThreshold, 1, 2}
    /\ prevThreshold \in {NoThreshold, 1, 2}

\* The highest reading the hook produces (all three loads on, fluctuation
\* +4) classified critical.
C13_Witness ==
    /\ lastOp = "periodicUpdate"
    /\ powerUsage = 194
    /\ threshold = 2

\* C14: while notification permission is not granted no update dispatches
\* a push notification, whatever the app state, and the foreground path
\* still works: an update that changes the threshold level or the app state
\* and leaves a threshold level other than none with the app in the
\* foreground leaves the warning modal visible.
C14_NoPermissionNoPush ==
    ~notificationPermission
    => /\ dispatched = <<>>
       /\ (/\ threshold # NoThreshold
           /\ appState = "active"
           /\ (threshold # prevThreshold \/ lastOp = "appStateChange"))
          => showWarning

\* Permission denied, the app brought back to the foreground at the critical
\* level: the modal is visible and nothing was dispatched.
C14_Witness ==
    /\ ~notificationPermission /\ ~registering
    /\ lastOp = "appStateChange"
    /\ appState = "active"
    /\ threshold = 2
    /\ showWarning
    /\ dispatched = <<>>

\* C16: the modal path and the push path exclude each other by foreground
\* state: an update dispatches a push notification only when it leaves the
\* app out of the foreground, makes the modal visible only when it leaves
\* the app in the foreground, and never does both.
C16_ModalAndPushExclusive ==
    /\ [](dispatched # <<>> => appState # "active")
    /\ [][(~showWarning /\ showWarning')
            => (appState' = "active" /\ dispatched' = <<>>)]_vars
    /\ [](\A th \in {NoThreshold, 1, 2}, app \in AppStates, perm \in BOOLEAN :
            ~(NotificationEffect(th, app, perm) # <<>> /\ ModalEffect(th, app)))

\* A critical notification dispatched with the app inactive and the modal
\* not visible.
C16_Witness ==
    /\ dispatched = <<"Smart Power Monitor - Critical">>
    /\ appState = "inactive"
    /\ ~showWarning
    /\ lastOp = "toggleComponent"

----------------------------------------------------------------------------
(* Threshold level and the loads that are on *)

\* A toggle of a load that was on.
TurnedOff(id) ==
    /\ lastOp' = "toggleComponent"
    /\ components[id] /\ ~components'[id]

\* C22 (as stated): turning a load off while the threshold level is nonzero
\* resets the level to none, whichever load it is.
C22_TurnOffResetsThreshold ==
    [][\A id \in ComponentIds :
          (TurnedOff(id) /\ threshold # NoThreshold)
          => threshold' = NoThreshold]_vars

\* C22 (amended): turning a load off while the threshold level is nonzero
\* stores the level of the power that is left: none when the heater (3) was
\* turned off, 1 when the fan (2) was, and the level as it was when the
\* light bulb (1) was.
C22_TurnOffReclassifies ==
    [][\A id \in ComponentIds :
          (TurnedOff(id) /\ threshold # NoThreshold)
          => threshold' = CASE id = 3 -> NoThreshold
                            [] id = 2 -> 1
                            [] id = 1 -> threshold]_vars

C22_Witness ==
    /\ lastOp = "toggleComponent"
    /\ prevThreshold = 2 /\ threshold = 1
    /\ components[3] /\ ~components[2]

\* C25: the stored threshold is the classification of the stored
\* powerUsage: 2 iff powerUsage > 150, 1 iff 100 < powerUsage <= 150, none
\* iff powerUsage <= 100.
C25_ThresholdClassifiesPower ==
    /\ (threshold = 2) <=> powerUsage > 150
    /\ (threshold = 1) <=> (powerUsage > 100 /\ powerUsage <= 150)
    /\ (threshold = NoThreshold) <=> powerUsage <= 100

\* turnOffAll has run while the level was critical.
C25_Witness ==
    /\ lastOp = "turnOffAll"
    /\ prevThreshold = 2
    /\ connected
    /\ powerUsage = 0 /\ threshold = NoThreshold

\* C26: whatever the fluctuation, the threshold level is not none iff the
\* heater (3) is on, and is 2 iff the fan (2) and the heater are both on;
\* the light bulb (1) does not count.
C26_ThresholdFromComponents ==
    /\ (threshold # NoThreshold) <=> components[3]
    /\ (threshold = 2) <=> (components[2] /\ components[3])

\* Light bulb and heater on with the largest fluctuation: 149 W, level 1.
C26_Witness ==
    /\ components[1] /\ ~components[2] /\ components[3]
    /\ powerUsage = 149
    /\ threshold = 1

\* C27: while not connected all three components are off, powerUsage is 0
\* and the threshold is none, however disconnect interleaves with the
\* pending callbacks.
C27_DisconnectedMeansOff ==
    ~connected => (AllOff /\ powerUsage = 0 /\ threshold = NoThreshold)

\* C28: while the warning modal is visible the threshold level is 1 or 2.
C28_VisibleModalHasLevel ==
    showWarning => threshold \in {1, 2}

\* C30: powerUsage is never negative: it stays within 0..194 and, while all
\* components are off, within 0..4.
C30_PowerUsageRange ==
    /\ powerUsage \in 0 .. 194
    /\ AllOff => powerUsage \in 0 .. 4

\* A periodic update with all components off and the fluctuation clamped
\* or zero.
C30_Witness ==
    /\ lastOp = "periodicUpdate"
    /\ connected
    /\ AllOff
    /\ powerUsage = 0

----------------------------------------------------------------------------
(* Delayed operations and overlapping taps *)

\* The timer callbacks
FireOps == {"connect", "toggleComponent", "turnOffAll"}

\* C17: a delayed operation that has been scheduled is never cancelled: no
\* step but the firing of a callback takes a callback out of the pending
\* ones (a disconnect leaves them all), and when the 300 ms toggle callback
\* or the 500 ms turn-off-all callback fires it applies its effect to the
\* state it finds, connected or not.
C17_TimersNeverCancelled ==
    [][/\ lastOp' \notin FireOps
          => /\ Len(timers') >= Len(timers)
             /\ SubSeq(timers', 1, Len(timers)) = timers
       /\ lastOp' = "disconnect" => timers' = timers
       /\ lastOp' = "toggleComponent"
          => \E i \in 1 .. Len(timers) :
               /\ timers[i].kind = "toggle"
               /\ timers' = Remove(timers, i)
               /\ components' = [components EXCEPT ![timers[i].id] = ~@]
               /\ connected' = connected
       /\ lastOp' = "turnOffAll"
          => \E i \in 1 .. Len(timers) :
               /\ timers[i].kind = "turnOffAll"
               /\ timers' = Remove(timers, i)
               /\ \A id \in ComponentIds : ~components'[id]
               /\ powerUsage' = 0
               /\ threshold' = NoThreshold]_vars

\* A toggle of the heater scheduled before a disconnect and fired after it:
\* the heater is on and the level is warning in a disconnected hook.
C17_Witness ==
    /\ lastOp = "toggleComponent"
    /\ ~connected
    /\ components[3]
    /\ threshold = 1
    /\ prevThreshold = NoThreshold

\* The place of the first pending toggle callback.
FirstToggle(pending) ==
    CHOOSE i \in 1 .. Len(pending) :
        /\ pending[i].kind = "toggle"
        /\ \A j \in 1 .. (i - 1) : pending[j].kind # "toggle"

\* C18: taps are not queued, locked or dropped: a toggle tap on a button
\* that is on screen is accepted while toggles are in flight and adds its
\* own callback to the pending ones; the callbacks run in the order of the taps, each negating the
\* value the one before it stored, so the value stored last is the one of
\* the last callback.
C18_OverlappingToggles ==
    /\ []((connected /\ appState = "active" /\ Len(timers) < MaxPending)
            => \A id \in ComponentIds :
                 (showWarning => components[id])
                 => ENABLED HandleToggleComponent(id))
    /\ [][/\ lastOp' = "handleToggleComponent"
             => /\ \E id \in ComponentIds :
                     timers' = Append(timers, Timer("toggle", id))
                /\ UNCHANGED hookVars
          /\ lastOp' = "toggleComponent"
             => /\ \E i \in 1 .. Len(timers) : timers[i].kind = "toggle"
                /\ timers' = Remove(timers, FirstToggle(timers))
                /\ components' =
                     [components EXCEPT ![timers[FirstToggle(timers)].id] = ~@]]_vars

\* The first of two overlapping toggles of the fan has switched it on and
\* the second is still pending.
C18_Witness ==
    /\ lastOp = "toggleComponent"
    /\ timers = <<Timer("toggle", 2)>>
    /\ components[2]
    /\ connected

\* C23: the warning modal becomes visible only on an update that changes
\* the threshold level or the app state, to a nonzero level in the
\* foreground; after a dismissal the readings that keep arriving with the
\* same level in the foreground do not show it again.
C23_ModalOncePerTransition ==
    [][(~showWarning /\ showWarning')
         => /\ threshold' # threshold \/ appState' # appState
            /\ threshold' \in {1, 2}
            /\ appState' = "active"]_vars

C23_Witness ==
    /\ lastOp = "periodicUpdate"
    /\ connected
    /\ appState = "active"
    /\ threshold = 1 /\ prevThreshold = 1
    /\ ~showWarning

\* The HomeScreen with every toggle callback carrying what its tap saw.
TapsInit ==
    /\ HomeInit
    /\ calc = [use |-> "taps"]
    /\ tariffScreen = Unused
    /\ monitoring = Unused
    /\ polling = Unused

SpecTaps == TapsInit /\ [][Next]_vars

\* C21: a toggle of component N sets N to the negation of the state the
\* user saw when tapping and leaves the other two components unchanged,
\* also when it was tapped while an earlier toggle of N was pending.
C21_ToggleNegatesSeenState ==
    [][lastOp' = "toggleComponent"
         => LET t == timers[FirstToggle(timers)]
            IN  /\ components'[t.id] = ~t.seen
                /\ \A c \in ComponentIds \ {t.id} :
                      components'[c] = components[c]]_vars

----------------------------------------------------------------------------
(* handleTurnOffAll when turnOffAll fails.  The handlers await the hook's    *)
(* promises inside try blocks; the mock hook's promises always resolve, a    *)
(* hook that writes to a device can reject them.  This specification is the  *)
(* HomeScreen with a turnOffAll that either resolves, as the mock's does, or *)
(* rejects without having changed the hook's state.  calc.alert is the       *)
(* message of the Alert on screen.                                           *)

WriteFailureInit ==
    /\ HomeInit
    /\ polling = Unused
    /\ calc = [use |-> "alert", alert |-> "null"]
    /\ tariffScreen = Unused
    /\ monitoring = Unused

\* turnOffAll rejects: handleTurnOffAll's await throws, dismissWarning is
\* skipped and the catch block calls Alert.alert.
TurnOffAllReject(i) ==
    /\ calc.use = "alert"
    /\ CanFire(i)
    /\ timers[i].kind = "turnOffAll"
    /\ timers' = Remove(timers, i)
    /\ calc' = [calc EXCEPT !.alert = "Failed to turn off devices. Please try again."]
    /\ UNCHANGED <<hookVars, loading, error, appState, notificationPermission,
                   registering, tariffScreen, monitoring, polling>>
    /\ Effects(showWarning)
    /\ Op("turnOffAllRejected")

\* The Alert's OK button.
AlertOk ==
    /\ calc.use = "alert"
    /\ calc.alert # "null"
    /\ appState = "active"
    /\ calc' = [calc EXCEPT !.alert = "null"]
    /\ UNCHANGED <<hookVars, loading, error, appState, notificationPermission,
                   registering, timers, tariffScreen, monitoring, polling>>
    /\ Effects(showWarning)
    /\ Op("alertOk")

WriteFailureNext ==
    \/ Next
    \/ \E i \in 1 .. MaxPending : TurnOffAllReject(i)
    \/ AlertOk

SpecWriteFailure == WriteFailureInit /\ [][WriteFailureNext]_vars

----------------------------------------------------------------------------
(* Threshold classification: getThreshold, getPowerDisplayColor and the      *)
(* warning branch of the polling HomeScreen's fetchPowerData, applied to a   *)
(* reading drawn from 0 .. MaxReading.                                        *)

\* the largest reading classified
MaxReading == 200

\* getPowerDisplayColor
getPowerDisplayColor(p) ==
    IF p > THRESHOLD_2 THEN "#F44336"
    ELSE IF p > THRESHOLD_1 THEN "#FFA500"
    ELSE "#4CAF50"

\* A fetchPowerData that clears the warning on a normal reading.
fetchPowerDataWarningClears(newPower, w) ==
    IF newPower > THRESHOLD_2 THEN [warningLevel |-> 2, showWarning |-> TRUE]
    ELSE IF newPower > THRESHOLD_1 THEN [warningLevel |-> 1, showWarning |-> TRUE]
    ELSE [warningLevel |-> 0, showWarning |-> FALSE]

\* fetchPowerData (polling HomeScreen): warningLevel and showWarning after a
\* reading of newPower, w being their values before it.
fetchPowerDataWarning(newPower, w) ==
    IF newPower > THRESHOLD_2 THEN [warningLevel |-> 2, showWarning |-> TRUE]
    ELSE IF newPower > THRESHOLD_1 THEN [warningLevel |-> 1, showWarning |-> TRUE]
    ELSE w

ClassifyInit ==
    /\ HomeInit
    /\ polling = Unused
    /\ tariffScreen = Unused
    /\ monitoring = Unused
    /\ \E v \in 0 .. MaxReading :
         calc = [use |-> "classify", value |-> v, applied |-> {},
                 level |-> NoThreshold, color |-> "",
                 warning |-> [warningLevel |-> 0, showWarning |-> FALSE]]

ApplyGetThreshold ==
    /\ calc.use = "classify"
    /\ "getThreshold" \notin calc.applied
    /\ calc' = [calc EXCEPT !.applied = @ \cup {"getThreshold"},
                            !.level = getThreshold(calc.value)]
    /\ UNCHANGED <<homeVars, tariffScreen, monitoring, polling>>

ApplyGetPowerDisplayColor ==
    /\ calc.use = "classify"
    /\ "getPowerDisplayColor" \notin calc.applied
    /\ calc' = [calc EXCEPT !.applied = @ \cup {"getPowerDisplayColor"},
                            !.color = getPowerDisplayColor(calc.value)]
    /\ UNCHANGED <<homeVars, tariffScreen, monitoring, polling>>

ApplyFetchPowerData ==
    /\ calc.use = "classify"
    /\ "fetchPowerData" \notin calc.applied
    /\ calc' = [calc EXCEPT !.applied = @ \cup {"fetchPowerData"},
                            !.warning = fetchPowerDataWarning(calc.value, @)]
    /\ UNCHANGED <<homeVars, tariffScreen, monitoring, polling>>

ClassifyNext ==
    \/ ApplyGetThreshold
    \/ ApplyGetPowerDisplayColor
    \/ ApplyFetchPowerData

SpecClassify == ClassifyInit /\ [][ClassifyNext]_vars

\* C1: with warn = 100 and crit = 150 the classifier returns critical (2)
\* iff value > crit, warning (1) iff warn < value <= crit and normal (null)
\* iff value <= warn, so value = warn is normal and value = crit is warning;
\* getPowerDisplayColor and fetchPowerData compare the same way.
C1_StrictClassification ==
    LET v == calc.value
        critical == v > 150
        warning == v > 100 /\ v <= 150
        normal == v <= 100
    IN  /\ "getThreshold" \in calc.applied
           => /\ (calc.level = 2) <=> critical
              /\ (calc.level = 1) <=> warning
              /\ (calc.level = NoThreshold) <=> normal
        /\ "getPowerDisplayColor" \in calc.applied
           => /\ (calc.color = "#F44336") <=> critical
              /\ (calc.color = "#FFA500") <=> warning
              /\ (calc.color = "#4CAF50") <=> normal
        /\ "fetchPowerData" \in calc.applied
           => /\ (calc.warning.warningLevel = 2) <=> critical
              /\ (calc.warning.warningLevel = 1) <=> warning
              /\ calc.warning.showWarning <=> ~normal

C1_Witness ==
    /\ calc.applied = {"getThreshold", "getPowerDisplayColor", "fetchPowerData"}
    /\ calc.value = 150
    /\ calc.level = 1
    /\ calc.color = "#FFA500"
    /\ calc.warning.warningLevel = 1

----------------------------------------------------------------------------
(* The polling HomeScreen (connectToESP, startPolling, stopPolling).  A      *)
(* function called from a handler or an interval is the one of the render    *)
(* the handler or interval was created in: a connectToESP call and the       *)
(* intervals it starts carry the connected that render saw.  State setters   *)
(* of an unmounted screen do nothing; refs and intervals outlive it.         *)

\* presses of Connect and Retry
MaxPresses == 3

\* Math.floor(Math.random() * 180), some of its values
Readings == {0, 100, 101, 150, 151, 179}

\* The state variables of the screen
StateFields == {"connected", "loading", "error", "components", "powerUsage",
                "showWarning", "warningLevel"}

\* The screen after a callback that leaves it as q: the state of an
\* unmounted screen stays what it was.
Commit(p, q) ==
    IF p.mounted THEN q
    ELSE [f \in DOMAIN q |-> IF f \in StateFields THEN p[f] ELSE q[f]]

\* fetchPowerData of a render that saw connected = captured
fetchPowerData(p, captured, newPower) ==
    IF ~captured THEN p
    ELSE LET w == fetchPowerDataWarning(newPower,
                    [warningLevel |-> p.warningLevel,
                     showWarning |-> p.showWarning])
         IN  [p EXCEPT !.powerUsage = newPower,
                       !.error = "null",
                       !.warningLevel = w.warningLevel,
                       !.showWarning = w.showWarning]

\* startPolling: two new intervals, their ids stored in the two refs.
startPolling(p, captured) ==
    LET power == 2 * p.started + 1
        alert == 2 * p.started + 2
    IN  [p EXCEPT !.intervals = @ \cup {[id |-> power, connected |-> captured],
                                        [id |-> alert, connected |-> captured]},
                  !.powerPollingRef = power,
                  !.thresholdPollingRef = alert,
                  !.started = @ + 1]

\* stopPolling: clearInterval of the ids the two refs hold.
stopPolling(p) ==
    [p EXCEPT !.intervals =
        {iv \in @ : iv.id \notin {p.powerPollingRef, p.thresholdPollingRef}}]

\* fetchInitialState
fetchInitialState(p, reading) ==
    [p EXCEPT !.components = [id \in ComponentIds |-> id = 2],
              !.powerUsage = reading]

\* A failed connection that sets no error.
networkDownSilent(p) == [p EXCEPT !.connected = FALSE]

\* connectToESP when networkState.isConnected is false
networkDown(p) ==
    [p EXCEPT !.error = "Not connected to WiFi. Please connect to ESP8266 network.",
              !.connected = FALSE]

PollingInit ==
    /\ HomeInit
    /\ calc = Unused
    /\ tariffScreen = Unused
    /\ monitoring = Unused
    /\ polling = [use |-> "polling",
                  mounted |-> TRUE,
                  connected |-> FALSE,
                  loading |-> FALSE,
                  error |-> "null",
                  components |-> [id \in ComponentIds |-> FALSE],
                  powerUsage |-> 0,
                  showWarning |-> FALSE,
                  warningLevel |-> 0,
                  calls |-> <<>>,
                  intervals |-> {},
                  powerPollingRef |-> 0,
                  thresholdPollingRef |-> 0,
                  started |-> 0,
                  presses |-> 0,
                  last |-> "mount"]

\* connectToESP up to its first await
connectToESP(p, name) ==
    [p EXCEPT !.loading = TRUE,
              !.calls = Append(@, [connected |-> p.connected]),
              !.presses = @ + 1,
              !.last = name]

\* The Connect button: shown while not connected, disabled while loading.
PressConnect ==
    /\ polling.use = "polling"
    /\ polling.mounted
    /\ ~polling.connected
    /\ ~polling.loading
    /\ polling.presses < MaxPresses
    /\ polling' = connectToESP(polling, "connectToESP")
    /\ UNCHANGED <<homeVars, calc, tariffScreen, monitoring>>

\* The Retry button of the error banner, shown while error is set.
PressRetry ==
    /\ polling.use = "polling"
    /\ polling.mounted
    /\ polling.error # "null"
    /\ polling.presses < MaxPresses
    /\ polling' = connectToESP(polling, "retry")
    /\ UNCHANGED <<homeVars, calc, tariffScreen, monitoring>>

\* Network.getNetworkStateAsync resolves for call i: the rest of connectToESP.
NetworkState(i, isConnected) ==
    /\ polling.use = "polling"
    /\ i \in 1 .. Len(polling.calls)
    /\ LET p == polling
           call == p.calls[i]
           rest == [p EXCEPT !.calls = Remove(@, i)]
       IN  IF ~isConnected
           THEN polling' = Commit(rest, [networkDown(rest) EXCEPT
                                            !.loading = FALSE,
                                            !.last = "networkDown"])
           ELSE \E reading \in Readings, newPower \in Readings :
                  polling' = Commit(rest,
                     [fetchPowerData(
                         startPolling(
                            [fetchInitialState([rest EXCEPT !.error = "null"],
                                               reading)
                               EXCEPT !.connected = TRUE],
                            call.connected),
                         call.connected, newPower)
                        EXCEPT !.loading = FALSE, !.last = "networkUp"])
    /\ UNCHANGED <<homeVars, calc, tariffScreen, monitoring>>

\* Network.getNetworkStateAsync rejects for call i: the catch block.
NetworkThrows(i) ==
    /\ polling.use = "polling"
    /\ i \in 1 .. Len(polling.calls)
    /\ LET rest == [polling EXCEPT !.calls = Remove(@, i)]
       IN  polling' = Commit(rest,
              [rest EXCEPT !.error = "Error checking network",
                           !.connected = FALSE,
                           !.loading = FALSE,
                           !.last = "networkThrows"])
    /\ UNCHANGED <<homeVars, calc, tariffScreen, monitoring>>

\* disconnectFromESP: the Disconnect button.
DisconnectFromESP ==
    /\ polling.use = "polling"
    /\ polling.mounted
    /\ polling.connected
    /\ ~polling.loading
    /\ polling' = [stopPolling(polling) EXCEPT
                      !.connected = FALSE,
                      !.error = "null",
                      !.components = [id \in ComponentIds |-> FALSE],
                      !.powerUsage = 0,
                      !.last = "disconnectFromESP"]
    /\ UNCHANGED <<homeVars, calc, tariffScreen, monitoring>>

\* toggleComponent of the polling screen: the buttons are disabled while
\* not connected.
PollingToggleComponent(id) ==
    /\ polling.use = "polling"
    /\ polling.mounted
    /\ polling.connected
    /\ polling' = [polling EXCEPT !.components[id] = ~@,
                                  !.last = "toggleComponent"]
    /\ UNCHANGED <<homeVars, calc, tariffScreen, monitoring>>

\* An interval fires: fetchPowerData for the power interval (odd ids),
\* checkThresholdAlert, which does nothing, for the other.
IntervalFires(iv) ==
    /\ polling.use = "polling"
    /\ iv \in polling.intervals
    /\ \E newPower \in Readings :
         polling' = Commit(polling,
            [(IF iv.id % 2 = 1
              THEN fetchPowerData(polling, iv.connected, newPower)
              ELSE polling)
               EXCEPT !.last = "interval"])
    /\ UNCHANGED <<homeVars, calc, tariffScreen, monitoring>>

\* The screen is torn down: the cleanup of the mount effect.
Unmount ==
    /\ polling.use = "polling"
    /\ polling.mounted
    /\ polling' = [stopPolling(polling) EXCEPT !.mounted = FALSE,
                                                !.last = "unmount"]
    /\ UNCHANGED <<homeVars, calc, tariffScreen, monitoring>>

PollingNext ==
    \/ PressConnect
    \/ PressRetry
    \/ \E i \in 1 .. MaxPresses, isConnected \in BOOLEAN :
         NetworkState(i, isConnected)
    \/ \E i \in 1 .. MaxPresses : NetworkThrows(i)
    \/ DisconnectFromESP
    \/ \E id \in ComponentIds : PollingToggleComponent(id)
    \/ \E id \in 1 .. 2 * MaxPresses, captured \in BOOLEAN :
         IntervalFires([id |-> id, connected |-> captured])
    \/ Unmount

SpecPolling == PollingInit /\ [][PollingNext]_vars

\* C19: when connecting fails (no network, or an exception while
\* connecting) an error message is set, which shows the banner whose Retry
\* button runs connectToESP again, connected is false and loading is back to
\* false; loading is back to false after a successful connect too.
C19_ConnectFailure ==
    LET p == polling
    IN  /\ (p.mounted /\ p.last \in {"networkDown", "networkThrows"})
           => /\ p.error # "null"
              /\ ~p.connected
              /\ ~p.loading
              /\ p.presses < MaxPresses => ENABLED PressRetry
        /\ (p.mounted /\ p.last = "networkUp")
           => (~p.loading /\ p.connected /\ p.error = "null")

\* Retry pressed after a failed connect: a connectToESP call in flight with
\* the error of the failure still on screen.
C19_Witness ==
    /\ polling.last = "retry"
    /\ polling.error = "Not connected to WiFi. Please connect to ESP8266 network."
    /\ polling.loading
    /\ ~polling.connected
    /\ Len(polling.calls) = 1

\* C24: after a successful connect, the fetch made by startPolling and
\* every poll tick leave the screen with the reading as powerUsage and,
\* when it is above THRESHOLD_2 or THRESHOLD_1, with warningLevel 2 or 1 and
\* the warning modal visible.
C24_PollingRaisesWarning ==
    LET p == polling
    IN  (p.mounted /\ p.connected /\ p.last \in {"networkUp", "interval"})
        => /\ p.powerUsage > THRESHOLD_2
              => (p.warningLevel = 2 /\ p.showWarning)
           /\ (p.powerUsage > THRESHOLD_1 /\ p.powerUsage <= THRESHOLD_2)
              => (p.warningLevel = 1 /\ p.showWarning)

\* C20: after the screen is torn down or a disconnect is executed no
\* interval started by the screen remains active: stopPolling has cleared
\* every interval startPolling started, whatever the interleaving of the
\* connect attempts.
C20_NoIntervalAfterStop ==
    polling.last \in {"disconnectFromESP", "unmount"}
    => polling.intervals = {}

----------------------------------------------------------------------------
(* fetchPowerData and the handlers of the polling HomeScreen that write     *)
(* showWarning, applied to every state of the screen: the connected they    *)
(* see, the warning level and the modal are drawn from their ranges.  The   *)
(* screen of SpecPolling never has its modal on screen, so its Dismiss and  *)
(* Turn Off All buttons are pressed here only.                              *)

ReadingsInit ==
    /\ HomeInit
    /\ calc = Unused
    /\ tariffScreen = Unused
    /\ monitoring = Unused
    /\ \E c \in BOOLEAN, comps \in [ComponentIds -> BOOLEAN],
          power \in Readings, level \in {0, 1, 2}, sw \in BOOLEAN :
         /\ sw => level # 0
         /\ polling = [use |-> "polling",
                       mounted |-> TRUE,
                       connected |-> c,
                       loading |-> FALSE,
                       error |-> "null",
                       components |-> comps,
                       powerUsage |-> power,
                       showWarning |-> sw,
                       warningLevel |-> level,
                       calls |-> <<>>,
                       intervals |-> {},
                       powerPollingRef |-> 0,
                       thresholdPollingRef |-> 0,
                       started |-> 0,
                       presses |-> 0,
                       last |-> "mount",
                       captured |-> FALSE,
                       newPower |-> 0]

\* fetchPowerData of a render that saw connected = captured; newPower is
\* the reading Math.random gives when the call gets that far.
FetchPowerData(captured, newPower) ==
    /\ polling.use = "polling"
    /\ polling' = [fetchPowerData(polling, captured, newPower) EXCEPT
                      !.last = "fetchPowerData",
                      !.captured = captured,
                      !.newPower = newPower]
    /\ UNCHANGED <<homeVars, calc, tariffScreen, monitoring>>

\* dismissWarning of the polling screen: the modal's Dismiss button.
PollingDismissWarning ==
    /\ polling.use = "polling"
    /\ polling.showWarning
    /\ polling' = [polling EXCEPT !.showWarning = FALSE,
                                  !.last = "dismissWarning"]
    /\ UNCHANGED <<homeVars, calc, tariffScreen, monitoring>>

\* turnOffAllComponents: the modal's Turn Off All button.
TurnOffAllComponents ==
    /\ polling.use = "polling"
    /\ polling.showWarning
    /\ polling' = [polling EXCEPT
                      !.components = [id \in ComponentIds |-> FALSE],
                      !.showWarning = FALSE,
                      !.last = "turnOffAllComponents"]
    /\ UNCHANGED <<homeVars, calc, tariffScreen, monitoring>>

ReadingsNext ==
    \/ \E captured \in BOOLEAN, newPower \in Readings :
         FetchPowerData(captured, newPower)
    \/ PollingDismissWarning
    \/ TurnOffAllComponents
    \/ DisconnectFromESP
    \/ \E id \in ComponentIds : PollingToggleComponent(id)

SpecReadings == ReadingsInit /\ [][ReadingsNext]_vars

\* C29: a reading with newPower <= THRESHOLD_1 leaves warningLevel and
\* showWarning as they were; warningLevel, once 1 or 2, never returns to 0;
\* and a visible modal is closed by Dismiss or Turn Off All only, not by a
\* reading and not by a disconnect.
C29_NormalReadingFrame ==
    /\ [][(polling'.last = "fetchPowerData"
             /\ polling'.newPower <= THRESHOLD_1)
            => /\ polling'.warningLevel = polling.warningLevel
               /\ polling'.showWarning = polling.showWarning]_vars
    /\ [][polling.warningLevel # 0 => polling'.warningLevel # 0]_vars
    /\ [][(polling.showWarning /\ ~polling'.showWarning)
            => polling'.last \in {"dismissWarning",
                                  "turnOffAllComponents"}]_vars

\* A reading of 100 W taken by a fetchPowerData that saw connected = true
\* while the critical modal is on screen.
C29_Witness ==
    /\ polling.use = "polling"
    /\ polling.last = "fetchPowerData"
    /\ polling.captured
    /\ polling.newPower = 100 /\ polling.powerUsage = 100
    /\ polling.warningLevel = 2
    /\ polling.showWarning

----------------------------------------------------------------------------
(* Tiered tariff calculator (Firebase variant of the app), applied to an    *)
(* energy total drawn from 0 .. MaxKWh and a pair of breakpoints.            *)

\* the largest energy total billed
MaxKWh == 400

\* <<warningThreshold, criticalThreshold>> pairs, each with wt < ct
Breakpoints == {<<100, 300>>, <<50, 200>>, <<1, 2>>}

\* A tiered bill that charges the whole consumption at the tier's rate.
calculateBillWholeAtTierRate(kWh, wt, ct) ==
    LET energyCharge == IF kWh <= wt THEN kWh * 4
                        ELSE IF kWh <= ct THEN kWh * 6
                        ELSE kWh * 14
        fixed == IF kWh <= wt THEN 75 ELSE IF kWh <= ct THEN 200 ELSE 400
    IN  [energyCharge |-> energyCharge, fixed |-> fixed,
         total |-> energyCharge + fixed]

\* The tiered bill: the energy charge, the fixed charge and their sum.
calculateBill(kWh, wt, ct) ==
    LET energyCharge ==
            IF kWh <= wt THEN kWh * 4
            ELSE IF kWh <= ct THEN wt * 4 + (kWh - wt) * 6
            ELSE wt * 4 + (ct - wt) * 6 + (kWh - ct) * 14
        fixed == IF kWh <= wt THEN 75 ELSE IF kWh <= ct THEN 200 ELSE 400
    IN  [energyCharge |-> energyCharge, fixed |-> fixed,
         total |-> energyCharge + fixed]

BillInit ==
    /\ HomeInit
    /\ polling = Unused
    /\ tariffScreen = Unused
    /\ monitoring = Unused
    /\ \E kWh \in 0 .. MaxKWh, b \in Breakpoints :
         calc = [use |-> "bill", kWh |-> kWh, wt |-> b[1], ct |-> b[2],
                 applied |-> FALSE,
                 bill |-> [energyCharge |-> 0, fixed |-> 0, total |-> 0]]

ApplyCalculateBill ==
    /\ calc.use = "bill"
    /\ ~calc.applied
    /\ calc' = [calc EXCEPT !.applied = TRUE,
                            !.bill = calculateBill(calc.kWh, calc.wt, calc.ct)]
    /\ UNCHANGED <<homeVars, tariffScreen, monitoring, polling>>

BillNext == ApplyCalculateBill

SpecBill == BillInit /\ [][BillNext]_vars

\* The energy charge of kWh units counted unit by unit: each unit costs the
\* rate of the tier it falls in, and falls in one tier.
UnitByUnit(kWh, wt, ct) ==
    LET units == 1 .. kWh
    IN  4 * Cardinality({u \in units : u <= wt})
        + 6 * Cardinality({u \in units : wt < u /\ u <= ct})
        + 14 * Cardinality({u \in units : u > ct})

\* C9: for breakpoints wt < ct the bill is total = energyCharge + fixed,
\* with kWh <= wt charged kWh*4 and fixed 75, wt < kWh <= ct charged
\* wt*4 + (kWh-wt)*6 and fixed 200, kWh > ct charged
\* wt*4 + (ct-wt)*6 + (kWh-ct)*14 and fixed 400; for wt = 100, ct = 300 the
\* totals are 275 at 50 kWh, 900 at 150 kWh and 3400 at 400 kWh.
C9_TieredBill ==
    calc.applied
    => LET kWh == calc.kWh
           wt == calc.wt
           ct == calc.ct
           b == calc.bill
       IN  /\ b.total = b.energyCharge + b.fixed
           /\ b.energyCharge = UnitByUnit(kWh, wt, ct)
           /\ kWh <= wt => (b.energyCharge = kWh * 4 /\ b.fixed = 75)
           /\ (wt < kWh /\ kWh <= ct)
              => (b.energyCharge = wt * 4 + (kWh - wt) * 6 /\ b.fixed = 200)
           /\ kWh > ct
              => /\ b.energyCharge = wt * 4 + (ct - wt) * 6 + (kWh - ct) * 14
                 /\ b.fixed = 400
           /\ (wt = 100 /\ ct = 300 /\ kWh = 50) => b.total = 275
           /\ (wt = 100 /\ ct = 300 /\ kWh = 150) => b.total = 900
           /\ (wt = 100 /\ ct = 300 /\ kWh = 400) => b.total = 3400

C9_Witness ==
    /\ calc.applied
    /\ calc.wt = 100 /\ calc.ct = 300 /\ calc.kWh = 400
    /\ calc.bill = [energyCharge |-> 3000, fixed |-> 400, total |-> 3400]

----------------------------------------------------------------------------
(* TariffScreen.  Text fields are sequences of characters.  Numbers are     *)
(* fractions [n, d] and arithmetic on them is exact; d = 0 is NaN.           *)

\* text edits made on the screen
MaxEdits == 1

NaN == [n |-> 0, d |-> 0]
IsNaN(a) == a.d = 0

RECURSIVE Gcd(_, _)
Gcd(a, b) == IF b = 0 THEN a ELSE Gcd(b, a % b)

\* The fraction n/d in lowest terms.
Frac(n, d) ==
    LET g == Gcd(n, d)
    IN  IF g = 0 THEN [n |-> 0, d |-> d] ELSE [n |-> n \div g, d |-> d \div g]

Num(k) == Frac(k, 1)
Mul(a, b) ==
    IF IsNaN(a) \/ IsNaN(b) THEN NaN ELSE Frac(a.n * b.n, a.d * b.d)
Add(a, b) ==
    IF IsNaN(a) \/ IsNaN(b) THEN NaN
    ELSE LET g == Gcd(a.d, b.d)
         IN  Frac(a.n * (b.d \div g) + b.n * (a.d \div g), (a.d \div g) * b.d)

Digits == {"0", "1", "2", "3", "4", "5", "6", "7", "8", "9"}
DigitValue(c) ==
    CASE c = "0" -> 0 [] c = "1" -> 1 [] c = "2" -> 2 [] c = "3" -> 3
      [] c = "4" -> 4 [] c = "5" -> 5 [] c = "6" -> 6 [] c = "7" -> 7
      [] c = "8" -> 8 [] c = "9" -> 9

\* The index after the run of digits of s that starts at i.
RECURSIVE DigitsEnd(_, _)
DigitsEnd(s, i) ==
    IF i <= Len(s) /\ s[i] \in Digits THEN DigitsEnd(s, i + 1) ELSE i

\* The value of the digits s[i .. j-1].
RECURSIVE DigitsValue(_, _, _)
DigitsValue(s, i, j) ==
    IF j <= i THEN 0
    ELSE DigitsValue(s, i, j - 1) * 10 + DigitValue(s[j - 1])

RECURSIVE Pow10(_)
Pow10(k) == IF k = 0 THEN 1 ELSE 10 * Pow10(k - 1)

\* parseFloat on the characters of a decimal pad: the longest prefix of the
\* form digits [. digits] with at least one digit, NaN when there is none.
parseFloat(s) ==
    LET intEnd == DigitsEnd(s, 1)
        hasDot == intEnd <= Len(s) /\ s[intEnd] = "."
        fracEnd == IF hasDot THEN DigitsEnd(s, intEnd + 1) ELSE intEnd
        fracLen == IF hasDot THEN fracEnd - (intEnd + 1) ELSE 0
    IN  IF intEnd = 1 /\ fracLen = 0 THEN NaN
        ELSE Frac(DigitsValue(s, 1, intEnd) * Pow10(fracLen)
                    + DigitsValue(s, intEnd + 1, intEnd + 1 + fracLen),
                  Pow10(fracLen))

\* A dual tariff cost that bills the off-peak hours as peak hours.
calculateDualTariffCostPeakTwice(usage, peakHrs, offPeakHrs, peakRate, offPeakRate) ==
    Add(Mul(Mul(usage, peakHrs), peakRate), Mul(Mul(usage, peakHrs), offPeakRate))

calculateDualTariffCost(usage, peakHrs, offPeakHrs, peakRate, offPeakRate) ==
    LET peakCost == Mul(Mul(usage, peakHrs), peakRate)
        offPeakCost == Mul(Mul(usage, offPeakHrs), offPeakRate)
    IN  Add(peakCost, offPeakCost)

dailyCost(ts) ==
    IF ts.useDualTariff
    THEN calculateDualTariffCost(ts.hourlyUsage, parseFloat(ts.peakHours),
                                 parseFloat(ts.offPeakHours),
                                 parseFloat(ts.peakTariff),
                                 parseFloat(ts.offPeakTariff))
    ELSE Mul(Mul(ts.hourlyUsage, parseFloat(ts.dailyHours)), parseFloat(ts.tariff))

monthlyCost(ts) == Mul(dailyCost(ts), Num(30))
yearlyCost(ts) == Mul(dailyCost(ts), Num(365))

\* The fields of TariffSettings
TextFields == {"tariff", "dailyHours", "peakTariff", "offPeakTariff",
               "peakHours", "offPeakHours"}
SettingsFields == TextFields \cup {"useDualTariff"}

\* What a user types into a field
TextInputs == {<<>>, <<"2">>, <<"0", ".", "5">>, <<".", "5">>,
               <<"1", ".", "2", ".", "5">>}

\* route.params.powerUsage: readings of the HomeScreen
RouteParams == {0, 120, 194}

\* A stringify that writes the two rates under each other's key.
stringifyRatesSwapped(settings) ==
    [i \in 1 .. 7 |->
        LET key == <<"tariff", "dailyHours", "useDualTariff", "peakTariff",
                     "offPeakTariff", "peakHours", "offPeakHours">>[i]
            from == CASE key = "peakTariff" -> "offPeakTariff"
                      [] key = "offPeakTariff" -> "peakTariff"
                      [] OTHER -> key
        IN  <<key, IF key = "useDualTariff" THEN "boolean" ELSE "string",
              settings[from]>>]

\* JSON.stringify of a TariffSettings object: its members in order, each a
\* key, the JSON type of the value and the value.
stringify(settings) ==
    [i \in 1 .. 7 |->
        LET key == <<"tariff", "dailyHours", "useDualTariff", "peakTariff",
                     "offPeakTariff", "peakHours", "offPeakHours">>[i]
        IN  <<key, IF key = "useDualTariff" THEN "boolean" ELSE "string",
              settings[key]>>]

\* JSON.parse: the object whose fields are the members of the text.
parse(json) ==
    [key \in {json[i][1] : i \in 1 .. Len(json)} |->
        LET i == CHOOSE k \in 1 .. Len(json) : json[k][1] = key
        IN  json[i][3]]

\* The values rendered from the state: dailyCost, monthlyCost, yearlyCost.
Render(ts) ==
    [ts EXCEPT !.dailyCost = dailyCost(ts),
               !.monthlyCost = monthlyCost(ts),
               !.yearlyCost = yearlyCost(ts)]

\* The settings an earlier visit of the screen saved
SettingsBefore ==
    [tariff |-> <<"0", ".", "5">>, dailyHours |-> <<"2">>,
     useDualTariff |-> TRUE, peakTariff |-> <<".", "5">>,
     offPeakTariff |-> <<"0", ".", "5">>, peakHours |-> <<"2">>,
     offPeakHours |-> <<"2">>]

SavedBefore == stringify(SettingsBefore)

\* The state of a freshly mounted TariffScreen: the useState initial values,
\* loadSettings in flight.  stored is the AsyncStorage item, saved the
\* settings object of the saveSettings call that wrote it, last the handler
\* that ran last.
Mounted(p, stored, saved, edits) ==
    Render([use |-> "screen",
            powerUsage |-> p,
            tariff |-> <<"0", ".", "1", "2">>,
            hourlyUsage |-> Frac(p, 1000),
            dailyHours |-> <<"8">>,
            useDualTariff |-> FALSE,
            peakTariff |-> <<"0", ".", "1", "6">>,
            offPeakTariff |-> <<"0", ".", "0", "9">>,
            peakHours |-> <<"6">>,
            offPeakHours |-> <<"2">>,
            storage |-> stored,
            saved |-> saved,
            last |-> "mount",
            loading |-> TRUE,
            edits |-> edits,
            dailyCost |-> NaN, monthlyCost |-> NaN, yearlyCost |-> NaN])

TariffInit ==
    /\ HomeInit
    /\ polling = Unused
    /\ calc = Unused
    /\ monitoring = Unused
    /\ \E p \in RouteParams :
         \/ tariffScreen = Mounted(p, <<>>, Unused, 0)
         \/ tariffScreen = Mounted(p, SavedBefore, SettingsBefore, 0)

\* loadSettings, started on mount: AsyncStorage.getItem resolves.  An absent
\* item (the empty text here) leaves the state alone.
LoadSettings ==
    /\ tariffScreen.use = "screen"
    /\ tariffScreen.loading
    /\ LET ts == tariffScreen
           parsedSettings == parse(ts.storage)
       IN  tariffScreen' = Render(
             IF ts.storage = <<>>
             THEN [ts EXCEPT !.loading = FALSE, !.last = "loadSettings"]
             ELSE [ts EXCEPT !.loading = FALSE, !.last = "loadSettings",
                             !.tariff = parsedSettings.tariff,
                             !.dailyHours = parsedSettings.dailyHours,
                             !.useDualTariff = parsedSettings.useDualTariff,
                             !.peakTariff = parsedSettings.peakTariff,
                             !.offPeakTariff = parsedSettings.offPeakTariff,
                             !.peakHours = parsedSettings.peakHours,
                             !.offPeakHours = parsedSettings.offPeakHours])
    /\ UNCHANGED <<homeVars, calc, monitoring, polling>>

\* saveSettings: the Save Settings button.
SaveSettings ==
    /\ tariffScreen.use = "screen"
    /\ LET ts == tariffScreen
           settings == [f \in SettingsFields |-> ts[f]]
       IN  tariffScreen' = Render([ts EXCEPT !.storage = stringify(settings),
                                             !.saved = settings,
                                             !.last = "saveSettings"])
    /\ UNCHANGED <<homeVars, calc, monitoring, polling>>

\* onChangeText of a text field.
SetText(field, text) ==
    /\ tariffScreen.use = "screen"
    /\ tariffScreen.edits < MaxEdits
    /\ tariffScreen' = Render([tariffScreen EXCEPT ![field] = text,
                                                    !.edits = @ + 1,
                                                    !.last = "onChangeText"])
    /\ UNCHANGED <<homeVars, calc, monitoring, polling>>

\* onValueChange of the Use Dual Tariff switch.
SetUseDualTariff(value) ==
    /\ tariffScreen.use = "screen"
    /\ value # tariffScreen.useDualTariff
    /\ tariffScreen' = Render([tariffScreen EXCEPT !.useDualTariff = value,
                                                    !.last = "onValueChange"])
    /\ UNCHANGED <<homeVars, calc, monitoring, polling>>

\* The screen is left and opened again with the same reading: a new
\* instance with the initial state, the stored item kept; a loadSettings of
\* the old instance that is still in flight sets state of an unmounted
\* component.
Remount ==
    /\ tariffScreen.use = "screen"
    /\ tariffScreen.last # "mount"
    /\ tariffScreen' = Mounted(tariffScreen.powerUsage, tariffScreen.storage,
                               tariffScreen.saved, tariffScreen.edits)
    /\ UNCHANGED <<homeVars, calc, monitoring, polling>>

TariffNext ==
    \/ Remount
    \/ LoadSettings
    \/ SaveSettings
    \/ \E field \in TextFields, text \in TextInputs : SetText(field, text)
    \/ \E value \in BOOLEAN : SetUseDualTariff(value)

SpecTariff == TariffInit /\ [][TariffNext]_vars

\* A number in units of 1/scale, for a number that is a whole count of them.
Scaled(a, scale) == a.n * (scale \div a.d)

\* C10: dailyCost is hourlyUsage * dailyHours * tariff with the dual tariff
\* off and hourlyUsage*peakHours*peakTariff +
\* hourlyUsage*offPeakHours*offPeakTariff with it on (the text fields read
\* by parseFloat), and always monthlyCost = dailyCost*30 and
\* yearlyCost = dailyCost*365.  Stated in fixed point: usage in thousandths,
\* hours in tenths, rates in hundredths, costs in millionths; a field that
\* parseFloat cannot read makes the costs that use it NaN.
C10_TariffCosts ==
    LET ts == tariffScreen
        h == Scaled(ts.hourlyUsage, 1000)
        Hours(f) == Scaled(parseFloat(ts[f]), 10)
        Rate(f) == Scaled(parseFloat(ts[f]), 100)
        used == IF ts.useDualTariff
                THEN {"peakHours", "peakTariff", "offPeakHours", "offPeakTariff"}
                ELSE {"dailyHours", "tariff"}
        unreadable == \E f \in used : parseFloat(ts[f]).d = 0
        daily == Scaled(ts.dailyCost, 1000000)
    IN  IF unreadable
        THEN ts.dailyCost = NaN /\ ts.monthlyCost = NaN /\ ts.yearlyCost = NaN
        ELSE /\ ts.dailyCost.d # 0 /\ 1000000 % ts.dailyCost.d = 0
             /\ ts.useDualTariff
                => daily = h * Hours("peakHours") * Rate("peakTariff")
                           + h * Hours("offPeakHours") * Rate("offPeakTariff")
             /\ ~ts.useDualTariff
                => daily = h * Hours("dailyHours") * Rate("tariff")
             /\ ts.monthlyCost.d # 0 /\ 1000000 % ts.monthlyCost.d = 0
             /\ Scaled(ts.monthlyCost, 1000000) = daily * 30
             /\ ts.yearlyCost.d # 0 /\ 1000000 % ts.yearlyCost.d = 0
             /\ Scaled(ts.yearlyCost, 1000000) = daily * 365

\* 0.12 kW for 6 h at 0.16 and 2 h at 0.09: 0.1368 a day, 4.104 a month,
\* 49.932 a year.
C10_Witness ==
    /\ tariffScreen.useDualTariff
    /\ tariffScreen.hourlyUsage = Frac(120, 1000)
    /\ tariffScreen.peakHours = <<"6">>
    /\ tariffScreen.peakTariff = <<"0", ".", "1", "6">>
    /\ tariffScreen.offPeakHours = <<"2">>
    /\ tariffScreen.offPeakTariff = <<"0", ".", "0", "9">>
    /\ Scaled(tariffScreen.dailyCost, 1000000) = 136800
    /\ Scaled(tariffScreen.monthlyCost, 1000000) = 4104000
    /\ Scaled(tariffScreen.yearlyCost, 1000000) = 49932000

\* C11: saveSettings followed by loadSettings restores exactly the saved
\* values of tariff, dailyHours, useDualTariff, peakTariff, offPeakTariff,
\* peakHours and offPeakHours, whatever edits were made in between: right
\* after loadSettings read a stored item, the seven fields are those of the
\* settings object that was saved.
C11_SettingsRoundTrip ==
    (tariffScreen.last = "loadSettings" /\ tariffScreen.storage # <<>>)
    => \A f \in SettingsFields : tariffScreen[f] = tariffScreen.saved[f]

\* A field typed in and saved, the screen opened again, and the typed text
\* (an empty one and one parseFloat reads only in part among them) back in
\* the field in place of the initial value.
C11_Witness ==
    /\ tariffScreen.last = "loadSettings"
    /\ tariffScreen.edits = 1
    /\ tariffScreen.saved # Unused
    /\ tariffScreen.saved # SettingsBefore
    /\ tariffScreen.peakTariff = <<"1", ".", "2", ".", "5">>
    /\ tariffScreen.saved.peakTariff = <<"1", ".", "2", ".", "5">>
    /\ tariffScreen.useDualTariff

----------------------------------------------------------------------------
(* Daily energy written back by the Firebase variant of the app: the        *)
(* reading of a load that was switched off is taken out of dailyEnergy.      *)

\* the largest dailyEnergy and power drawn
MaxEnergy == 12

\* A write-back that stores the difference as computed.
writtenDailyEnergyUnclamped(dailyEnergy, power) == dailyEnergy - power

\* The dailyEnergy written back: dailyEnergy - power, 0 when that is negative.
writtenDailyEnergy(dailyEnergy, power) ==
    IF dailyEnergy - power < 0 THEN 0 ELSE dailyEnergy - power

EnergyInit ==
    /\ HomeInit
    /\ polling = Unused
    /\ tariffScreen = Unused
    /\ monitoring = Unused
    /\ \E e \in 0 .. MaxEnergy, w \in 0 .. MaxEnergy :
         calc = [use |-> "energy", dailyEnergy |-> e, power |-> w,
                 applied |-> FALSE, written |-> e]

WriteDailyEnergy ==
    /\ calc.use = "energy"
    /\ ~calc.applied
    /\ calc' = [calc EXCEPT !.applied = TRUE,
                            !.written = writtenDailyEnergy(calc.dailyEnergy,
                                                           calc.power)]
    /\ UNCHANGED <<homeVars, tariffScreen, monitoring, polling>>

EnergyNext == WriteDailyEnergy

SpecEnergy == EnergyInit /\ [][EnergyNext]_vars

\* C12: whenever dailyEnergy - power is negative the dailyEnergy written
\* back is exactly 0, so the written dailyEnergy is never negative (and is
\* the difference when that is not negative).
C12_NegativeEnergyClamp ==
    calc.applied
    => /\ calc.written >= 0
       /\ calc.dailyEnergy < calc.power => calc.written = 0
       /\ calc.dailyEnergy >= calc.power
          => calc.written + calc.power = calc.dailyEnergy

C12_Witness ==
    /\ calc.applied
    /\ calc.dailyEnergy = 3 /\ calc.power = 5
    /\ calc.written = 0

----------------------------------------------------------------------------
(* Command dispatcher of the Firebase variant: the monitoring record, the   *)
(* writes the app makes to its command field, and the device that reads it. *)

\* user commands issued
MaxTaps == 2

\* A toggle command that names the state the load is leaving.
ToggleCommandOldState(id, on) ==
    "TOGGLE:" \o ToString(id) \o ":" \o (IF on THEN "OFF" ELSE "ON")

\* "TOGGLE:<id>:<ON|OFF>"
ToggleCommand(id, on) ==
    "TOGGLE:" \o ToString(id) \o ":" \o (IF on THEN "ON" ELSE "OFF")

Write(tap, value) == [tap |-> tap, value |-> value]

CommandInit ==
    /\ HomeInit
    /\ polling = Unused
    /\ calc = Unused
    /\ tariffScreen = Unused
    /\ \E comps \in [ComponentIds -> BOOLEAN] :
         monitoring = [use |-> "firebase",
                       components |-> comps,
                       thresholdLevel |-> 0,
                       command |-> "NONE",
                       taps |-> <<>>,
                       writes |-> <<>>,
                       delayed |-> <<>>]

\* Toggle of load id, up to the delay: the target is the negation of the
\* last known state; the command field is cleared; turning a load off
\* while a warning is active resets thresholdLevel.
CommandToggle(id) ==
    /\ monitoring.use = "firebase"
    /\ Len(monitoring.taps) < MaxTaps
    /\ LET m == monitoring
           tap == Len(m.taps) + 1
           target == ~m.components[id]
       IN  monitoring' =
             [m EXCEPT !.taps = Append(@, [kind |-> "toggle", id |-> id,
                                           target |-> target]),
                       !.command = "NONE",
                       !.writes = Append(@, Write(tap, "NONE")),
                       !.delayed = Append(@, [tap |-> tap, id |-> id,
                                              target |-> target]),
                       !.thresholdLevel =
                           IF ~target /\ @ # 0 THEN 0 ELSE @]
    /\ UNCHANGED <<homeVars, calc, tariffScreen, polling>>

\* The delayed write of a toggle: delays are equal, so the writes come in
\* the order of the taps.
CommandDelayedWrite ==
    /\ monitoring.use = "firebase"
    /\ monitoring.delayed # <<>>
    /\ LET m == monitoring
           d == Head(m.delayed)
           value == ToggleCommand(d.id, d.target)
       IN  monitoring' = [m EXCEPT !.command = value,
                                   !.writes = Append(@, Write(d.tap, value)),
                                   !.delayed = Tail(@)]
    /\ UNCHANGED <<homeVars, calc, tariffScreen, polling>>

\* Turn off all: one write of the command, then the threshold reset of a
\* dismissal.
CommandTurnOffAll ==
    /\ monitoring.use = "firebase"
    /\ Len(monitoring.taps) < MaxTaps
    /\ LET m == monitoring
           tap == Len(m.taps) + 1
       IN  monitoring' =
             [m EXCEPT !.taps = Append(@, [kind |-> "turnOffAll", id |-> 0,
                                           target |-> FALSE]),
                       !.command = "TURNOFFALL",
                       !.writes = Append(@, Write(tap, "TURNOFFALL")),
                       !.thresholdLevel = 0]
    /\ UNCHANGED <<homeVars, calc, tariffScreen, polling>>

\* The device acts on the command it reads.
DeviceApplies ==
    /\ monitoring.use = "firebase"
    /\ LET m == monitoring
       IN  \/ /\ m.command = "TURNOFFALL"
              /\ \E id \in ComponentIds : m.components[id]
              /\ monitoring' = [m EXCEPT !.components =
                                           [id \in ComponentIds |-> FALSE]]
           \/ \E id \in ComponentIds, on \in BOOLEAN :
                /\ m.command = ToggleCommand(id, on)
                /\ m.components[id] # on
                /\ monitoring' = [m EXCEPT !.components[id] = on]
    /\ UNCHANGED <<homeVars, calc, tariffScreen, polling>>

\* The device reports a threshold level.
DeviceSetsThreshold(level) ==
    /\ monitoring.use = "firebase"
    /\ level # monitoring.thresholdLevel
    /\ monitoring' = [monitoring EXCEPT !.thresholdLevel = level]
    /\ UNCHANGED <<homeVars, calc, tariffScreen, polling>>

CommandNext ==
    \/ \E id \in ComponentIds : CommandToggle(id)
    \/ CommandDelayedWrite
    \/ CommandTurnOffAll
    \/ DeviceApplies
    \/ \E level \in {0, 1, 2} : DeviceSetsThreshold(level)

SpecCommand == CommandInit /\ [][CommandNext]_vars

\* The values written to the command field on behalf of tap t, in order.
WritesOf(t) ==
    LET w == monitoring.writes
        Sel(x) == x.tap = t
    IN  [i \in 1 .. Len(SelectSeq(w, Sel)) |-> SelectSeq(w, Sel)[i].value]

DelayPending(t) ==
    \E i \in 1 .. Len(monitoring.delayed) : monitoring.delayed[i].tap = t

\* C5: a toggle writes "NONE" to the command field and then, after the
\* delay, one command string "TOGGLE:<id>:<ON|OFF>" naming the load and
\* its target state, and nothing else; a toggle of component 2 from OFF
\* writes "NONE" and then "TOGGLE:2:ON".
C5_ClearThenCommand ==
    \A t \in 1 .. Len(monitoring.taps) :
        LET tap == monitoring.taps[t]
            target == IF tap.target THEN "ON" ELSE "OFF"
        IN  tap.kind = "toggle"
            => /\ DelayPending(t) => WritesOf(t) = <<"NONE">>
               /\ ~DelayPending(t)
                  => /\ Len(WritesOf(t)) = 2
                     /\ WritesOf(t)[1] = "NONE"
                     /\ tap.id = 1 => WritesOf(t)[2] = "TOGGLE:1:" \o target
                     /\ tap.id = 2 => WritesOf(t)[2] = "TOGGLE:2:" \o target
                     /\ tap.id = 3 => WritesOf(t)[2] = "TOGGLE:3:" \o target
                     /\ (tap.id = 2 /\ tap.target)
                        => WritesOf(t) = <<"NONE", "TOGGLE:2:ON">>

C5_Witness ==
    /\ Len(monitoring.taps) = 1
    /\ monitoring.taps[1] = [kind |-> "toggle", id |-> 2, target |-> TRUE]
    /\ monitoring.delayed = <<>>
    /\ monitoring.command = "TOGGLE:2:ON"
    /\ WritesOf(1) = <<"NONE", "TOGGLE:2:ON">>

====
